---- MODULE Spec2Model ----
(***************************************************************************)
(* State-machine model of the deferred-command rendering pipeline of       *)
(* rust_graphics_sandbox (src/src/app.rs, src/src/camera.rs).              *)
(*                                                                         *)
(* Groups of state:                                                        *)
(*   - one AssetManager<T> (assets, next_handle) driven by insert / get /  *)
(*     remove calls (specification SpecAsset; SpecWrap takes the counter   *)
(*     to the end of its range);                                           *)
(*   - the ECS world, the three command queues, the recorded render pass   *)
(*     and the GPU buffers, driven by App::update_and_render broken into   *)
(*     its program points (specifications Spec, SpecScene, SpecPub and     *)
(*     SpecCreate);                                                        *)
(*   - one SegQueue drained pop by pop while producers push (SpecQueue);   *)
(*   - the App and its resumed events, which build the State and run its   *)
(*     StartupSchedule (SpecApp), and its Resized events (SpecResize);     *)
(*   - threads calling one AssetManager, lock by lock (SpecThreads);       *)
(*   - a frame that starts with queued WriteBuffer commands (SpecWrites).  *)
(***************************************************************************)
EXTENDS Integers, Sequences, FiniteSets, TLC

VARIABLES
    \* ---- AssetManager<T> (app.rs 136-172)
    assets,        \* HashMap<Handle, Arc<T>>: function handle -> asset
    next_handle,   \* the usize counter
    \* ---- history of the calls made on the AssetManager
    returned,      \* sequence of [h, a]: handle returned by the i-th insert(a)
    removed,       \* handles on which remove has been called
    retired,       \* handles on which remove has been called after insert returned them
    last,          \* the last call: [op, h, res, prior, retired]
    \* ---- ECS world (app.rs 212, 300-322)
    cameras,       \* camera entity -> Camera component (with its MainCamera marker)
    renderables,   \* the Renderable components, in query iteration order
    \* ---- command queues (app.rs 63-76)
    write_queue,   \* GpuWriteBufferCommandQueue
    create_queue,  \* GpuCreateBufferCommandQueue
    render_queue,  \* GpuRenderCommandQueue
    \* ---- App::update_and_render (app.rs 406-518)
    pc,            \* program point of the frame
    ran,           \* systems of RenderSchedule that have run in this frame
    acquire,       \* result of the last surface.get_current_texture()
    drained,       \* cmd_vec: the render commands popped in this frame
    pass,          \* calls recorded into this frame's render pass
    \* ---- graphics device
    staged,        \* queue.write_buffer calls waiting for the next submit
    gpu,           \* buffer -> content resident on the GPU
    \* ---- history of the frame
    frameEye,      \* camera -> eye when the frame began
    changedThis,   \* the overlay changed a camera field in this frame
    changedPrev,   \* the overlay changed a camera field in the previous frame
    steps,         \* the steps update_and_render has performed in this frame, in order
    \* ---- one SegQueue and the pop loop that drains it (app.rs 447-462)
    seg_queue,     \* the commands in the SegQueue, oldest first
    cmd_vec,       \* the Vec the running (or last) pop loop has filled
    qpc,           \* "idle" | "popping" | "done": position of the consumer
    pushes,        \* producer -> number of commands it has pushed
    \* ---- history of the drains
    at_start,      \* the queue contents when the pop loop was entered
    quiet,         \* a drain has ended and nothing was pushed since
    undisturbed,   \* the last drain ended with nothing pushed since the one before
    \* ---- App and its event loop (app.rs 351-394, 520-548)
    built,         \* number of States built by set_window
    startups,      \* runs of StartupSchedule on the world of App.state
    batch,         \* the SpawnGltf messages read by that run
    meshes,        \* number of meshes in the AssetManager<Mesh> of App.state
    \* ---- history of the startup
    spawned,       \* the Renderables that run left in the world
    \* ---- build profile
    overflow_checks, \* integer overflow panics (TRUE) or wraps (FALSE)
    \* ---- threads calling one AssetManager (app.rs 149-171)
    threads,       \* thread -> [pc, op, arg, handle, res, calls]
    \* ---- the surface of the State and the App's screen descriptor (app.rs 206, 355)
    surface_config,    \* <<width, height>> of State.surface_config
    depth_texture,     \* <<width, height>> of the depth texture
    screen_descriptor, \* size_in_pixels of App.screen_descriptor
    \* ---- history of the window events
    last_resize    \* <<width, height>> of the last Resized event

amVars == <<assets, next_handle, returned, removed, retired, last>>

frameVars == <<cameras, renderables, write_queue, create_queue, render_queue, pc, ran,
               acquire, drained, pass, staged, gpu, frameEye, changedThis, changedPrev,
               steps>>

queueVars == <<seg_queue, cmd_vec, qpc, pushes, at_start, quiet, undisturbed>>

appVars == <<built, startups, batch, meshes, spawned>>

surfaceVars == <<surface_config, depth_texture, screen_descriptor, last_resize>>

extVars == <<queueVars, appVars, overflow_checks, threads, surfaceVars>>

vars == <<amVars, frameVars, extVars>>

(***************************************************************************)
(* State outside the AssetManager and the frame                            *)
(***************************************************************************)
\* the threads that push to one queue
Producers == {1, 2}

\* SegQueue::new, and no drain begun
NoDrainLoop ==
    /\ seg_queue = << >>
    /\ cmd_vec = << >>
    /\ qpc = "idle"
    /\ pushes = [p \in Producers |-> 0]
    /\ at_start = << >>
    /\ quiet = FALSE
    /\ undisturbed = FALSE

\* App::new: no State built yet
AppNew ==
    /\ built = 0
    /\ startups = 0
    /\ batch = << >>
    /\ meshes = 0
    /\ spawned = << >>

\* a build with overflow checks (the dev profile's default)
DevProfile == overflow_checks = TRUE

\* the size set_window asks for and passes to State::new
InitialSize == <<1920, 1080>>

\* App::new: no State, no screen descriptor
NoSurface ==
    /\ surface_config = << >>
    /\ depth_texture = << >>
    /\ screen_descriptor = << >>
    /\ last_resize = << >>

\* the surface as State::new configures it and the screen descriptor
\* set_window stores, before any Resized event
SurfaceAsBuilt ==
    /\ surface_config = InitialSize
    /\ depth_texture = InitialSize
    /\ screen_descriptor = InitialSize
    /\ last_resize = << >>

\* the threads that call the AssetManager
Threads == {1, 2}

\* no thread is inside a call
NoThreads ==
    threads = [t \in Threads |->
                  [pc |-> "idle", op |-> "none", arg |-> 0, handle |-> 0, res |-> 0,
                   calls |-> 0]]

(***************************************************************************)
(* Bounds of the AssetManager model.                                       *)
(***************************************************************************)
\* number of insert calls explored (far below the usize limit of the counter)
MaxInserts == 3
\* number of distinct assets (Arc<T> values) passed to insert
NumAssets == 2

Assets == 1..NumAssets
\* handles used as arguments of get / remove; MaxInserts is never returned
Handles == 0..MaxInserts
\* Option::None
None == 0

(***************************************************************************)
(* AssetManager                                                            *)
(***************************************************************************)
\* AssetManager::new: empty map, counter 0
AssetManagerNew ==
    /\ assets = << >>
    /\ next_handle = 0

\* HashMap::get(&handle).cloned(): Some(asset) or None
MapGet(m, h) == IF h \in DOMAIN m THEN m[h] ELSE None

\* HashMap::insert(handle, asset): adds or overwrites the entry
MapInsert(m, h, a) == [k \in (DOMAIN m) \cup {h} |-> IF k = h THEN a ELSE m[k]]

\* HashMap::remove(&handle): the map without the entry
MapRemove(m, h) == [k \in (DOMAIN m) \ {h} |-> m[k]]

\* a counter update that forgets the increment
StuckCounter(n) == n
\* *next_handle += 1
BumpCounter(n) == n + 1

\* an insert that stores the asset under the incremented counter value
StoreUnderNext(m, h, a) == MapInsert(m, h + 1, a)
\* assets.insert(handle, asset.clone())
StoreAsset(m, h, a) == MapInsert(m, h, a)

\* the handles insert has returned so far
ReturnedHandles == {returned[i].h : i \in 1..Len(returned)}

\* the record of a call: prior/retired tell whether remove(h) had been called
\* before it (at all / after insert had returned h)
Call(op, h, res) ==
    [op |-> op, h |-> h, res |-> res, prior |-> h \in removed, retired |-> h \in retired]

\* AssetManager::insert(asset) -> Handle
Insert(a) ==
    /\ next_handle < MaxInserts
    /\ LET handle == next_handle IN
        /\ next_handle' = BumpCounter(next_handle)
        /\ assets' = StoreAsset(assets, handle, a)
        /\ returned' = Append(returned, [h |-> handle, a |-> a])
        /\ last' = Call("insert", handle, a)
    /\ UNCHANGED <<removed, retired, frameVars, extVars>>

\* AssetManager::get(handle) -> Option<Arc<T>>
Get(h) ==
    /\ last' = Call("get", h, MapGet(assets, h))
    /\ UNCHANGED <<assets, next_handle, returned, removed, retired, frameVars, extVars>>

\* a remove that returns the asset and leaves the entry in the table
KeepOnRemove(m, h) == m
\* the map left by assets.remove(&handle)
AfterRemove(m, h) == MapRemove(m, h)

\* AssetManager::remove(handle) -> Option<Arc<T>>
Remove(h) ==
    /\ assets' = AfterRemove(assets, h)
    /\ removed' = removed \cup {h}
    /\ retired' = IF h \in ReturnedHandles THEN retired \cup {h} ELSE retired
    /\ last' = Call("remove", h, MapGet(assets, h))
    /\ UNCHANGED <<next_handle, returned, frameVars, extVars>>

\* a manager on which no call has been made yet
FreshManager ==
    /\ AssetManagerNew
    /\ returned = << >>
    /\ removed = {}
    /\ retired = {}
    /\ last = [op |-> "new", h |-> 0, res |-> None, prior |-> FALSE, retired |-> FALSE]

\* no world, no frame: the state the frame variables keep under SpecAsset
NoFrame ==
    /\ cameras = << >>
    /\ renderables = << >>
    /\ write_queue = << >>
    /\ create_queue = << >>
    /\ render_queue = << >>
    /\ pc = "idle"
    /\ ran = {}
    /\ acquire = "none"
    /\ drained = << >>
    /\ pass = << >>
    /\ staged = << >>
    /\ gpu = << >>
    /\ frameEye = << >>
    /\ changedThis = FALSE
    /\ changedPrev = FALSE
    /\ steps = << >>

InitAsset ==
    FreshManager /\ NoFrame /\ NoDrainLoop /\ AppNew /\ DevProfile /\ NoThreads /\ NoSurface

NextAsset ==
    \/ \E a \in Assets : Insert(a)
    \/ \E h \in Handles : Get(h)
    \/ \E h \in Handles : Remove(h)

SpecAsset == InitAsset /\ [][NextAsset]_vars

(***************************************************************************)
(* Claims on the AssetManager (checked under SpecAsset)                    *)
(***************************************************************************)

\* C1: the handles returned by insert are pairwise distinct and strictly
\* increasing in call order, and a handle that was removed after having been
\* returned is not returned by any later insert.
C1_HandlesStrictlyIncreasing ==
    /\ \A i, j \in 1..Len(returned) : i < j => returned[i].h < returned[j].h
    /\ \A i, j \in 1..Len(returned) : i # j => returned[i].h # returned[j].h
    /\ last.op = "insert" => ~last.retired

\* an insert made after an earlier handle was removed from the table
C1_Witness ==
    /\ last.op = "insert"
    /\ Len(returned) >= 2
    /\ returned[1].h \in retired
    /\ returned[1].h \notin DOMAIN assets

\* C2: a handle returned by insert(a) resolves to a as long as remove was not
\* called on it, and a handle insert never returned resolves to absent; the
\* value a get call returns agrees with this.
C2_GetResolvesInserted ==
    /\ \A i \in 1..Len(returned) :
          returned[i].h \notin retired => MapGet(assets, returned[i].h) = returned[i].a
    /\ \A h \in Handles : h \notin ReturnedHandles => MapGet(assets, h) = None
    /\ last.op = "get" =>
          /\ last.h \notin ReturnedHandles => last.res = None
          /\ \A i \in 1..Len(returned) :
                (returned[i].h = last.h /\ ~last.retired) => last.res = returned[i].a

\* a get that found its asset after other inserts and a remove of another handle
C2_Witness ==
    /\ last.op = "get"
    /\ last.res # None
    /\ Len(returned) >= 2
    /\ retired # {}

\* C3 as stated: once remove(h) has been called, every later get(h) and
\* remove(h) yields absent, for any handle h.
C3_AbsentAfterAnyRemove ==
    /\ \A h \in removed : MapGet(assets, h) = None
    /\ (last.op \in {"get", "remove"} /\ last.prior) => last.res = None

\* C3 amended: once remove(h) has been called on a handle that insert had
\* already returned, every later get(h) and remove(h) yields absent; a remove
\* that returns an asset is the first remove of that handle since its insert
\* and returns the asset passed to that insert.
C3_AbsentAfterRemoveOfReturned ==
    /\ \A h \in retired : MapGet(assets, h) = None
    /\ (last.op \in {"get", "remove"} /\ last.retired) => last.res = None
    /\ (last.op = "remove" /\ last.res # None) =>
          /\ ~last.retired
          /\ \E i \in 1..Len(returned) : returned[i] = [h |-> last.h, a |-> last.res]

\* a second remove of a handle that had been inserted, with a later insert made
C3_Witness ==
    /\ last.op = "remove"
    /\ last.retired
    /\ next_handle > last.h + 1

(***************************************************************************)
(* The scene: cameras and renderables                                      *)
(***************************************************************************)
\* camera entities a world may hold
NumCameras == 2
\* how far the debug overlay can drag the eye along x, in steps
MaxDrag == 1
\* Renderables a world may hold
MaxRenderables == 3
\* distinct RenderPipeline objects (Arc pointers) the materials may refer to
NumPipelines == 2
\* the lengths of a material's bindings list the replay tells apart: none, one
\* (as State::new passes), several
BindingCounts == {0, 1, 2}

CameraIds == 1..NumCameras
Pipelines == 1..NumPipelines
\* eye = glam::vec3(0.0, 0.0, 5.0), and the positions a drag of x leads to
EyePositions == {<<x, 0, 5>> : x \in 0..MaxDrag}
\* the content create_buffer_init gives the uniform buffer: Mat4::IDENTITY,
\* the product of no projection and no view
Identity == [projection |-> << >>, view |-> << >>]

\* projection(fov, aspect, z_near, z_far) * look_at(eye, center, up), kept as
\* the product of its two factors, each named by its arguments: the view
\* matrix determines the eye, so different field values give different
\* matrices
ViewProj(cam) ==
    [projection |-> <<cam.fov, cam.aspect_ratio, cam.z_near, cam.z_far>>,
     view |-> <<cam.eye, cam.center, cam.up>>]

\* Camera::update_uniform
UpdateUniform(cam) == [cam EXCEPT !.uniform = ViewProj(cam)]

\* Camera::new, for the 1920 x 1080 surface set_window configures; the entity
\* is spawned with or without the MainCamera marker
CameraNew(id, main) ==
    LET fields == [eye |-> <<0, 0, 5>>, center |-> <<0, 0, 0>>, up |-> <<0, 1, 0>>,
                   fov |-> "70deg", aspect_ratio |-> <<1920, 1080>>,
                   z_near |-> "0.1", z_far |-> "1000.0"]
    IN [buffer |-> id, main |-> main, uniform |-> ViewProj(fields),
        eye |-> fields.eye, center |-> fields.center, up |-> fields.up,
        fov |-> fields.fov, aspect_ratio |-> fields.aspect_ratio,
        z_near |-> fields.z_near, z_far |-> fields.z_far]

\* the bind groups Material::new_arc creates for material m from n bindings
BindGroups(m, n) == [i \in 1..n |-> <<m, i>>]

\* a Renderable whose material m refers to pipeline p and has n bind groups,
\* and whose mesh m holds 3 * m indices
RenderableOf(m, p, n, visible) ==
    [material |-> [id |-> m, pipeline |-> p, bind_groups |-> BindGroups(m, n)],
     mesh |-> [vertex_buffer |-> <<"vb", m>>, index_buffer |-> <<"ib", m>>,
               index_count |-> 3 * m],
     visible |-> visible]

(***************************************************************************)
(* The RenderSchedule systems                                              *)
(***************************************************************************)
\* GpuWriteBufferCommand::new(buffer, offset, data)
GpuWriteBufferCommandNew(buffer, offset, data) ==
    [buffer |-> buffer, offset |-> offset, data |-> data]

\* a query that matches every Camera entity
AnyCameraQuery == DOMAIN cameras
\* Query<&Camera, With<MainCamera>>
MainCameraQuery == {c \in DOMAIN cameras : cameras[c].main}

\* the elements of a set of numbers in increasing order
RECURSIVE InOrder(_)
InOrder(S) ==
    IF S = {} THEN << >>
    ELSE LET m == CHOOSE x \in S : \A y \in S : x <= y
         IN <<m>> \o InOrder(S \ {m})

\* the commands camera_main_uniform_system pushes: one per matched camera,
\* carrying the camera's cached uniform
CameraCommands ==
    LET q == InOrder(MainCameraQuery)
    IN [i \in 1..Len(q) |->
            GpuWriteBufferCommandNew(cameras[q[i]].buffer, 0, cameras[q[i]].uniform)]

\* a routine that resets the cached uniform of the components it reads
ResetsUniforms(cams) == [c \in DOMAIN cams |-> [cams[c] EXCEPT !.uniform = Identity]]
\* the Camera components after `for camera in query` over Query<&Camera, ..>:
\* the query hands out shared references, no field is assigned
AfterCameraQuery(cams) == cams

\* camera_main_uniform_system
CameraMainUniformSystem ==
    /\ pc = "schedule"
    /\ "camera" \notin ran
    /\ ran' = ran \cup {"camera"}
    /\ write_queue' = write_queue \o CameraCommands
    /\ cameras' = AfterCameraQuery(cameras)
    /\ steps' = Append(steps, "camera_sync")
    /\ UNCHANGED <<amVars, extVars, renderables, create_queue, render_queue, pc, acquire,
                   drained, pass, staged, gpu, frameEye, changedThis, changedPrev>>

\* the GpuRenderCommand render_system builds for one Renderable
GpuRenderCommandOf(r) ==
    [pipeline |-> r.material.pipeline,
     bind_groups |-> r.material.bind_groups,
     vertex_buffer |-> r.mesh.vertex_buffer,
     index_buffer |-> r.mesh.index_buffer,
     index_count |-> r.mesh.index_count]

\* render_system: Query<&Renderable>, one push per matched entity
RenderSystem ==
    /\ pc = "schedule"
    /\ "render" \notin ran
    /\ ran' = ran \cup {"render"}
    /\ render_queue' = render_queue \o
            [i \in 1..Len(renderables) |-> GpuRenderCommandOf(renderables[i])]
    /\ steps' = Append(steps, "render_intent")
    /\ UNCHANGED <<amVars, extVars, cameras, renderables, write_queue, create_queue, pc, acquire,
                   drained, pass, staged, gpu, frameEye, changedThis, changedPrev>>

(***************************************************************************)
(* App::update_and_render, one action per program point                    *)
(***************************************************************************)
\* Result of Surface::get_current_texture: Ok, or one of wgpu::SurfaceError
AcquireResults == {"Ok", "Timeout", "Outdated", "Lost", "OutOfMemory"}

\* WindowEvent::RedrawRequested: update_and_render up to begin_render_pass
\* (Time::update and the encoder touch no state modelled here).
\* get_current_texture().unwrap() panics on every SurfaceError.
BeginFrame ==
    /\ pc \in {"idle", "presented"}
    /\ \E result \in AcquireResults :
        /\ acquire' = result
        /\ pc' = IF result = "Ok" THEN "schedule" ELSE "panicked"
    /\ ran' = {}
    /\ pass' = << >>
    /\ drained' = << >>
    /\ frameEye' = [c \in DOMAIN cameras |-> cameras[c].eye]
    /\ changedThis' = FALSE
    /\ changedPrev' = changedThis
    /\ steps' = << >>
    /\ UNCHANGED <<amVars, extVars, cameras, renderables, write_queue, create_queue, render_queue,
                   staged, gpu>>

\* a schedule run that returns as soon as one system has run
ReturnsEarly(r) == r # {}
\* state.ecs.run_schedule(RenderSchedule) returns when both systems have run
ScheduleReturned(r) == r = {"camera", "render"}

\* a pop loop that stops one command short of an empty queue
LeaveLast(queue) == IF queue = << >> THEN << >> ELSE <<queue[Len(queue)]>>
\* while let Some(cmd) = commands.queue.pop() { cmd_vec.push(cmd) }: the loop
\* ends when pop finds the queue empty
AfterPopLoop(queue) == << >>

\* a drain that issues the writes it popped last first
IssueReversed(cmds) == [i \in 1..Len(cmds) |-> cmds[Len(cmds) + 1 - i]]
\* a drain that issues none of the writes it pops
DropWrites(cmds) == << >>
\* for cmd in cmd_vec { state.queue.write_buffer(&cmd.buffer, cmd.offset, &cmd.data) }
IssueWrites(cmds) == cmds

\* the write-buffer drain: pop until the queue is empty, then issue the writes
DrainWriteBuffers ==
    /\ pc = "schedule"
    /\ ScheduleReturned(ran)
    /\ staged' = staged \o IssueWrites(write_queue)
    /\ write_queue' = AfterPopLoop(write_queue)
    /\ pc' = "writes_issued"
    /\ steps' = Append(steps, "writes")
    /\ UNCHANGED <<amVars, extVars, cameras, renderables, create_queue, render_queue, ran, acquire,
                   drained, pass, gpu, frameEye, changedThis, changedPrev>>

\* Arc::as_ptr(pipeline) as usize: the address of the pipeline object
PipelineKey(cmd) == cmd.pipeline

\* s with cmd put before the first element whose key is not smaller
InsertBeforeEqual(s, cmd) ==
    LET n == Cardinality({i \in 1..Len(s) : s[i].pipeline < cmd.pipeline})
    IN SubSeq(s, 1, n) \o <<cmd>> \o SubSeq(s, n + 1, Len(s))
\* s with cmd put after the last element whose key is not greater
InsertByKey(s, cmd) ==
    LET n == Cardinality({i \in 1..Len(s) : PipelineKey(s[i]) <= PipelineKey(cmd)})
    IN SubSeq(s, 1, n) \o <<cmd>> \o SubSeq(s, n + 1, Len(s))

RECURSIVE StableSort(_)
\* a stable sort by key, as slice::sort_by_key is
StableSort(s) ==
    IF s = << >> THEN << >>
    ELSE InsertByKey(StableSort(SubSeq(s, 1, Len(s) - 1)), s[Len(s)])

\* a replay of the commands in drain order
Unsorted(s) == s
\* cmd_vec.sort_by_key(|cmd| Arc::as_ptr(pipeline) as usize)
SortByPipeline(s) == StableSort(s)

\* current_pipeline.as_ref().is_none_or(|p| !Arc::ptr_eq(p, &cmd.pipeline))
PipelineChanged(current, cmd) == current = None \/ current # cmd.pipeline

\* the calls recorded for one command, and whether indexing bind_groups[0]
\* panicked (an empty list)
ReplayOne(current, cmd) ==
    LET bind == IF PipelineChanged(current, cmd)
                THEN << <<"set_pipeline", cmd.pipeline>> >> ELSE << >>
    IN IF Len(cmd.bind_groups) = 0
       THEN [calls |-> bind, panicked |-> TRUE]
       ELSE [calls |-> bind \o << <<"set_bind_group", 0, cmd.bind_groups[1]>>,
                                  <<"set_vertex_buffer", 0, cmd.vertex_buffer>>,
                                  <<"set_index_buffer", cmd.index_buffer>>,
                                  <<"draw_indexed", cmd.index_count>> >>,
             panicked |-> FALSE]

RECURSIVE ReplayFrom(_, _, _)
\* the loop over cmd_vec with its current_pipeline
ReplayFrom(cmds, current, calls) ==
    IF cmds = << >> THEN [calls |-> calls, panicked |-> FALSE]
    ELSE LET one == ReplayOne(current, Head(cmds))
         IN IF one.panicked
            THEN [calls |-> calls \o one.calls, panicked |-> TRUE]
            ELSE ReplayFrom(Tail(cmds), Head(cmds).pipeline, calls \o one.calls)

\* the replay of a sorted command list into the render pass
Replay(cmds) == ReplayFrom(cmds, None, << >>)

\* the render drain: pop until the queue is empty, sort, replay
DrainAndReplay ==
    /\ pc = "writes_issued"
    /\ drained' = render_queue
    /\ render_queue' = AfterPopLoop(render_queue)
    /\ LET out == Replay(SortByPipeline(render_queue)) IN
        /\ pass' = pass \o out.calls
        /\ pc' = IF out.panicked THEN "panicked" ELSE "replayed"
    /\ steps' = Append(steps, "replay")
    /\ UNCHANGED <<amVars, extVars, cameras, renderables, write_queue, create_queue, ran, acquire,
                   staged, gpu, frameEye, changedThis, changedPrev>>

\* a drag that writes the eye and skips update_uniform
DragWithoutUpdate(cam, e) == [cam EXCEPT !.eye = e]
\* if drag_vec3(.. &mut cam.0.eye ..) { cam.0.update_uniform() }
DragEye(cam, e) == IF e # cam.eye THEN UpdateUniform([cam EXCEPT !.eye = e]) ELSE cam

\* the debug overlay: with exactly one (Camera, MainCamera) entity, single_mut
\* succeeds and the eye may be dragged to e (e equal to the eye: no drag, or
\* the window is collapsed)
DebugOverlay ==
    /\ pc = "replayed"
    /\ \E e \in EyePositions :
        LET single == Cardinality(MainCameraQuery) = 1
            c == CHOOSE x \in MainCameraQuery : TRUE
        IN /\ cameras' = IF single THEN [cameras EXCEPT ![c] = DragEye(@, e)] ELSE cameras
           /\ changedThis' = (single /\ e # cameras[c].eye)
    /\ pc' = "overlay_done"
    /\ steps' = Append(steps, "overlay")
    /\ UNCHANGED <<amVars, extVars, renderables, write_queue, create_queue, render_queue, ran,
                   acquire, drained, pass, staged, gpu, frameEye, changedPrev>>

RECURSIVE ApplyWrites(_, _)
\* the buffers after the staged writes, applied in the order they were issued
ApplyWrites(buffers, writes) ==
    IF writes = << >> THEN buffers
    ELSE ApplyWrites([buffers EXCEPT ![Head(writes).buffer] = Head(writes).data],
                     Tail(writes))

\* state.queue.submit(Some(encoder.finish())); surface_texture.present()
SubmitAndPresent ==
    /\ pc = "overlay_done"
    /\ gpu' = ApplyWrites(gpu, staged)
    /\ staged' = << >>
    /\ pc' = "presented"
    /\ steps' = Append(steps, "submit_present")
    /\ UNCHANGED <<amVars, extVars, cameras, renderables, write_queue, create_queue, render_queue,
                   ran, acquire, drained, pass, frameEye, changedThis, changedPrev>>

Next ==
    \/ BeginFrame
    \/ CameraMainUniformSystem
    \/ RenderSystem
    \/ DrainWriteBuffers
    \/ DrainAndReplay
    \/ DebugOverlay
    \/ SubmitAndPresent

(***************************************************************************)
(* Initial states                                                          *)
(***************************************************************************)
\* a State on which update_and_render has not been called
NotRendering ==
    /\ pc = "idle"
    /\ ran = {}
    /\ acquire = "none"
    /\ drained = << >>
    /\ pass = << >>
    /\ staged = << >>
    /\ changedThis = FALSE
    /\ changedPrev = FALSE
    /\ steps = << >>

\* the queues as State::new inserts them, and no frame begun
NoFrameYet ==
    /\ write_queue = << >>
    /\ create_queue = << >>
    /\ render_queue = << >>
    /\ NotRendering

\* every camera as Camera::new builds it, its buffer holding the identity
CamerasAsBuilt ==
    /\ \E marks \in [CameraIds -> BOOLEAN] :
          cameras = [c \in CameraIds |-> CameraNew(c, marks[c])]
    /\ gpu = [c \in CameraIds |-> Identity]
    /\ frameEye = [c \in CameraIds |-> cameras[c].eye]

\* the Renderables spawn_gltf_system leaves after State::new: the one spawn
\* intent resolves (one Renderable, visible, one bind group) or does not
RenderablesAsSpawned ==
    renderables \in {<< >>, <<RenderableOf(1, 1, 1, TRUE)>>}

\* the world of State::new, with any MainCamera marking of the cameras
Init ==
    /\ FreshManager
    /\ NoDrainLoop
    /\ AppNew
    /\ DevProfile
    /\ NoThreads
    /\ SurfaceAsBuilt
    /\ NoFrameYet
    /\ CamerasAsBuilt
    /\ RenderablesAsSpawned

Spec == Init /\ [][Next]_vars

\* a world without cameras holding any Renderables: each with its own
\* material and mesh, any pipeline, any number of bind groups, shown or hidden
InitScene ==
    /\ FreshManager
    /\ NoDrainLoop
    /\ AppNew
    /\ DevProfile
    /\ NoThreads
    /\ SurfaceAsBuilt
    /\ NoFrameYet
    /\ cameras = << >>
    /\ gpu = << >>
    /\ frameEye = << >>
    /\ \E n \in 0..MaxRenderables :
        \E ps \in [1..n -> Pipelines], ns \in [1..n -> BindingCounts], vs \in [1..n -> BOOLEAN] :
            renderables = [i \in 1..n |-> RenderableOf(i, ps[i], ns[i], vs[i])]

SpecScene == InitScene /\ [][Next]_vars

\* the world of State::new after code outside the frame has assigned the
\* cameras' public eye field, with no call of update_uniform
InitPub ==
    /\ FreshManager
    /\ NoDrainLoop
    /\ AppNew
    /\ DevProfile
    /\ NoThreads
    /\ SurfaceAsBuilt
    /\ NoFrameYet
    /\ RenderablesAsSpawned
    /\ \E marks \in [CameraIds -> BOOLEAN], eyes \in [CameraIds -> EyePositions] :
          cameras = [c \in CameraIds |-> [CameraNew(c, marks[c]) EXCEPT !.eye = eyes[c]]]
    /\ gpu = [c \in CameraIds |-> Identity]
    /\ frameEye = [c \in CameraIds |-> cameras[c].eye]

SpecPub == InitPub /\ [][Next]_vars

(***************************************************************************)
(* Claims on the frame                                                     *)
(***************************************************************************)
\* the number of calls of one kind in a recorded pass
CountCalls(calls, name) == Cardinality({i \in 1..Len(calls) : calls[i][1] = name})

\* the number of queued writes that target one buffer
WritesTo(queue, buffer) == Cardinality({i \in 1..Len(queue) : queue[i].buffer = buffer})

VisibleCount == Cardinality({i \in 1..Len(renderables) : renderables[i].visible})

\* C4: render_system pushes exactly one RenderDraw per visible Renderable and
\* none for a hidden one, so a frame replays as many draws as there are
\* visible Renderables.
C4_OneDrawPerVisibleRenderable ==
    /\ (pc = "schedule" /\ "render" \in ran) => Len(render_queue) = VisibleCount
    /\ pc = "replayed" => CountCalls(pass, "draw_indexed") = VisibleCount

\* C5: a frame whose acquisition reports the surface outdated or lost does not
\* terminate the process.
C5_OutdatedSurfaceSkipsFrame ==
    acquire \in {"Outdated", "Lost"} => pc # "panicked"

\* C6 as stated: at the end of a frame in which the overlay changed the eye,
\* the uniform buffer holds the matrix of the camera's fields at that time.
C6_UniformCurrentAtFrameEnd ==
    (pc = "presented" /\ changedThis) =>
        \A c \in DOMAIN cameras :
            cameras[c].main => gpu[cameras[c].buffer] = ViewProj(cameras[c])

\* C6 amended: at the end of every frame the uniform buffer of each MainCamera
\* camera holds the matrix of the camera's fields as they were when the frame's
\* camera-sync routine ran; an eye changed by the overlay in that frame is not
\* yet in the buffer.
C6_UniformAsOfCameraSync ==
    pc = "presented" =>
        \A c \in DOMAIN cameras :
            cameras[c].main =>
                /\ gpu[cameras[c].buffer] = ViewProj([cameras[c] EXCEPT !.eye = frameEye[c]])
                /\ changedThis => gpu[cameras[c].buffer] # ViewProj(cameras[c])

\* the end of a frame in which the overlay dragged the eye
C6_Witness == pc = "presented" /\ changedThis

\* C7: every WriteBuffer payload the camera-sync routine pushed equals the
\* matrix computed from the fields its camera has when the routine runs.
C7_PayloadIsCurrentViewProj ==
    \A i \in 1..Len(write_queue) :
        \A c \in DOMAIN cameras :
            cameras[c].buffer = write_queue[i].buffer =>
                write_queue[i].data = ViewProj(cameras[c])

\* C8: at the end of a frame without a change that follows a frame in which the
\* overlay changed the eye, the uniform buffer holds the matrix of the changed
\* camera.
C8_NoStaleUniformAfterOneFrame ==
    (pc = "presented" /\ changedPrev /\ ~changedThis) =>
        \A c \in DOMAIN cameras :
            cameras[c].main => gpu[cameras[c].buffer] = ViewProj(cameras[c])

\* the end of the frame after the frame of a drag
C8_Witness == pc = "presented" /\ changedPrev /\ ~changedThis

\* C9 as stated: after the camera-sync routine every camera entity, marked
\* MainCamera or not, has exactly one queued write, at offset 0.
C9_OneWritePerCamera ==
    (pc = "schedule" /\ "camera" \in ran) =>
        /\ \A c \in DOMAIN cameras : WritesTo(write_queue, cameras[c].buffer) = 1
        /\ \A i \in 1..Len(write_queue) : write_queue[i].offset = 0

\* C9 amended: after the camera-sync routine every camera entity that carries
\* the MainCamera marker has exactly one queued write, at offset 0, and a
\* camera without the marker has none; no buffer has more than one.
C9_OneWritePerMainCamera ==
    (pc = "schedule" /\ "camera" \in ran) =>
        /\ \A c \in DOMAIN cameras :
              WritesTo(write_queue, cameras[c].buffer) = IF cameras[c].main THEN 1 ELSE 0
        /\ \A i \in 1..Len(write_queue) :
              /\ write_queue[i].offset = 0
              /\ \E c \in DOMAIN cameras : cameras[c].buffer = write_queue[i].buffer

\* the camera-sync routine has run on a marked and an unmarked camera
C9_Witness ==
    /\ pc = "schedule"
    /\ "camera" \in ran
    /\ \E c, d \in DOMAIN cameras : cameras[c].main /\ ~cameras[d].main

\* the pipelines the drained commands refer to
DrainedPipelines == {drained[i].pipeline : i \in 1..Len(drained)}

\* C10: a completed replay of the N drained commands, which refer to K
\* pipeline objects, has issued K pipeline binds, one for each pipeline, and N
\* draws.
C10_OneBindPerPipeline ==
    pc = "replayed" =>
        /\ CountCalls(pass, "set_pipeline") = Cardinality(DrainedPipelines)
        /\ \A p \in DrainedPipelines :
              Cardinality({i \in 1..Len(pass) : pass[i] = <<"set_pipeline", p>>}) = 1
        /\ CountCalls(pass, "draw_indexed") = Len(drained)

\* a replay of three commands drained with the shared pipeline first and last
C10_Witness ==
    /\ pc = "replayed"
    /\ Len(drained) = 3
    /\ drained[1].pipeline = drained[3].pipeline
    /\ drained[1].pipeline > drained[2].pipeline
    /\ drained[1].bind_groups # drained[3].bind_groups
    /\ drained[1].vertex_buffer # drained[3].vertex_buffer

\* the vertex buffers of the replayed commands, in replay order (in SpecScene
\* every Renderable has its own mesh, so the buffer names the command)
ReplayOrder ==
    LET IsVertexBind(call) == call[1] = "set_vertex_buffer"
        binds == SelectSeq(pass, IsVertexBind)
    IN [k \in 1..Len(binds) |-> binds[k][3]]

\* the place in the drained sequence of the command with vertex buffer vb
DrainPos(vb) == CHOOSE i \in 1..Len(drained) : drained[i].vertex_buffer = vb

\* C11: the replayed sequence is a permutation of the drained one, and two
\* commands that refer to the same pipeline are replayed in their drain order.
C11_SortIsStable ==
    pc = "replayed" =>
        /\ Len(ReplayOrder) = Len(drained)
        /\ \A i \in 1..Len(drained) :
              Cardinality({k \in 1..Len(ReplayOrder) :
                              ReplayOrder[k] = drained[i].vertex_buffer}) = 1
        /\ \A k, l \in 1..Len(ReplayOrder) :
              (k < l /\ drained[DrainPos(ReplayOrder[k])].pipeline
                            = drained[DrainPos(ReplayOrder[l])].pipeline)
                  => DrainPos(ReplayOrder[k]) < DrainPos(ReplayOrder[l])

\* a replay of draws drained as [A(p1), B(p2), C(p1)]
C11_Witness ==
    /\ pc = "replayed"
    /\ Len(drained) = 3
    /\ drained[1].pipeline = drained[3].pipeline
    /\ drained[1].pipeline # drained[2].pipeline

\* the bind groups listed by the drained commands, one pair per list entry
DrainedBindGroups ==
    UNION {{<<i, j>> : j \in 1..Len(drained[i].bind_groups)} :
              i \in 1..Len(drained)}

\* C20: replay never fails, whatever the length of a command's bind-group
\* list, and a completed replay has bound every listed bind group, one vertex
\* buffer and one index buffer per command, and issued one indexed draw each.
C20_ReplayBindsEveryGroup ==
    /\ pc = "panicked" => acquire # "Ok"
    /\ pc = "replayed" =>
          /\ CountCalls(pass, "set_bind_group") = Cardinality(DrainedBindGroups)
          /\ CountCalls(pass, "set_vertex_buffer") = Len(drained)
          /\ CountCalls(pass, "set_index_buffer") = Len(drained)
          /\ CountCalls(pass, "draw_indexed") = Len(drained)

\* C16: in every frame the render-intent routine runs only after the
\* camera-sync routine of that frame has completed.
C16_CameraSyncBeforeRenderIntent == "render" \in ran => "camera" \in ran

\* the RenderDraw commands render_system pushes for the present world
RenderCommands == [i \in 1..Len(renderables) |-> GpuRenderCommandOf(renderables[i])]

\* C12: the commands pushed in a frame's Render phase are consumed once, by
\* that frame's submitter: the queues are empty between frames, a drain starts
\* with this frame's pushes only, and what the submitter has issued and
\* drained is exactly what the frame's producers pushed.
C12_ConsumedOnceInSameFrame ==
    /\ pc \in {"idle", "presented"} =>
          write_queue = << >> /\ render_queue = << >> /\ create_queue = << >>
    /\ pc = "schedule" =>
          /\ write_queue = IF "camera" \in ran THEN CameraCommands ELSE << >>
          /\ render_queue = IF "render" \in ran THEN RenderCommands ELSE << >>
    /\ pc \in {"writes_issued", "replayed"} =>
          write_queue = << >> /\ staged = CameraCommands
    /\ pc \in {"replayed", "overlay_done"} =>
          render_queue = << >> /\ drained = RenderCommands

\* a second or later frame has returned after consuming a write and a draw
C12_Witness ==
    /\ pc = "presented"
    /\ changedPrev
    /\ Len(drained) = 1
    /\ MainCameraQuery # {}
    /\ write_queue = << >> /\ render_queue = << >>

(***************************************************************************)
(* The create-buffer queue                                                 *)
(***************************************************************************)
MaxCreates == 2

\* GpuCreateBufferCommand { data, desc }, named by its descriptor
GpuCreateBufferCommandOf(d) == [data |-> d, desc |-> d]

\* the contents a system holding ResMut<GpuCreateBufferCommandQueue> can have
\* left in the queue: up to MaxCreates commands
CreateBacklogs ==
    {[i \in 1..n |-> GpuCreateBufferCommandOf(i)] : n \in 0..MaxCreates}

\* the world of State::new with CreateBuffer commands queued before a frame
InitCreate ==
    /\ FreshManager
    /\ NoDrainLoop
    /\ AppNew
    /\ DevProfile
    /\ NoThreads
    /\ SurfaceAsBuilt
    /\ NotRendering
    /\ write_queue = << >>
    /\ render_queue = << >>
    /\ create_queue \in CreateBacklogs
    /\ CamerasAsBuilt
    /\ RenderablesAsSpawned

SpecCreate == InitCreate /\ [][Next]_vars

\* C13: the submitter drains the create-buffer queue in every frame: no
\* CreateBuffer command is left queued when the frame has been presented.
C13_CreateQueueDrained == pc = "presented" => create_queue = << >>

(***************************************************************************)
(* One command queue under concurrent producers                            *)
(***************************************************************************)
\* number of commands one producer pushes
MaxPushes == 2

\* the k-th command of producer p
CommandOf(p, k) == [producer |-> p, seq |-> k]

\* queue.push(cmd) by producer p: never blocks, at any moment of the consumer
Push(p) ==
    /\ pushes[p] < MaxPushes
    /\ pushes' = [pushes EXCEPT ![p] = @ + 1]
    /\ seg_queue' = Append(seg_queue, CommandOf(p, pushes[p] + 1))
    /\ quiet' = FALSE
    /\ UNCHANGED <<amVars, frameVars, appVars, overflow_checks, surfaceVars, threads, cmd_vec, qpc,
                   at_start, undisturbed>>

\* let mut cmd_vec = Vec::new(): the consumer enters the pop loop
BeginDrain ==
    /\ qpc \in {"idle", "done"}
    /\ qpc' = "popping"
    /\ cmd_vec' = << >>
    /\ at_start' = seg_queue
    /\ UNCHANGED <<amVars, frameVars, appVars, overflow_checks, surfaceVars, threads, seg_queue, pushes,
                   quiet, undisturbed>>

\* a loop that leaves after its first command
StopsAfterOne(q, vec) == q = << >> \/ vec # << >>
\* while let Some(cmd) = queue.pop(): the loop is left when pop returns None
LoopEnds(q, vec) == q = << >>

\* one pop() that returns Some(cmd), and cmd_vec.push(cmd)
PopSome ==
    /\ qpc = "popping"
    /\ ~LoopEnds(seg_queue, cmd_vec)
    /\ cmd_vec' = Append(cmd_vec, Head(seg_queue))
    /\ seg_queue' = Tail(seg_queue)
    /\ UNCHANGED <<amVars, frameVars, appVars, overflow_checks, surfaceVars, threads, qpc, pushes,
                   at_start, quiet, undisturbed>>

\* the pop() that ends the loop
PopNone ==
    /\ qpc = "popping"
    /\ LoopEnds(seg_queue, cmd_vec)
    /\ qpc' = "done"
    /\ undisturbed' = quiet
    /\ quiet' = TRUE
    /\ UNCHANGED <<amVars, frameVars, appVars, overflow_checks, surfaceVars, threads, seg_queue, cmd_vec,
                   pushes, at_start>>

InitQueue ==
    FreshManager /\ NoFrame /\ NoDrainLoop /\ AppNew /\ DevProfile /\ NoThreads /\ NoSurface

NextQueue ==
    \/ \E p \in Producers : Push(p)
    \/ BeginDrain
    \/ PopSome
    \/ PopNone

SpecQueue == InitQueue /\ [][NextQueue]_vars

\* C14: a drain claims the queue as it was when the drain started: the drained
\* sequence is that content, each command once, in push order, and holds no
\* command pushed after the start.
C14_DrainClaimsContentsAtStart == qpc = "done" => cmd_vec = at_start

\* C15: a drain that ends with no push since the end of the drain before it
\* has popped nothing.
C15_SecondDrainEmpty == (qpc = "done" /\ undisturbed) => cmd_vec = << >>

\* every command was pushed and drained, and a further drain has ended with
\* no push since
C15_Witness ==
    /\ qpc = "done"
    /\ undisturbed
    /\ \A p \in Producers : pushes[p] = MaxPushes

(***************************************************************************)
(* App: the event loop, State::new and the StartupSchedule                 *)
(***************************************************************************)
\* resumed events delivered to the App
MaxResumed == 2
\* meshes load_gltf can return
MaxMeshes == 1

\* AssetManager<Mesh> after State::new inserted n meshes: handle h -> mesh h + 1
MeshManager(n) == [h \in 0..(n - 1) |-> h + 1]
\* AssetManager<Material> after State::new: the material `basic` under Handle(0)
MaterialManager == [h \in {0} |-> 1]

\* let mut fox = Handle(0); for m in mesh_vec { fox = mesh_manager.insert(m) }
Fox(n) == IF n = 0 THEN 0 ELSE n - 1
\* SpawnGltf { mesh_handle: fox, material_handle: basic }
ProgramIntent(n) == [mesh_handle |-> Fox(n), material_handle |-> 0]
\* SpawnGltf messages written ahead of it: none, or one with any handles
ExtraIntents ==
    {<< >>} \cup {<<[mesh_handle |-> mh, material_handle |-> th]>> :
                      mh \in 0..MaxMeshes, th \in 0..1}

\* Renderable { mesh, material, visible: true }; `basic` has one binding and
\* its own pipeline
SpawnedRenderable(mesh, material) ==
    [RenderableOf(material, 1, 1, TRUE) EXCEPT !.mesh = RenderableOf(mesh, 1, 1, TRUE).mesh]

RECURSIVE StopAtMiss(_, _, _)
\* a reader loop that gives up at the first intent that does not resolve
StopAtMiss(msgs, meshReg, matReg) ==
    IF msgs = << >> THEN << >>
    ELSE LET mesh == MapGet(meshReg, Head(msgs).mesh_handle)
             material == MapGet(matReg, Head(msgs).material_handle)
         IN IF mesh # None /\ material # None
            THEN <<SpawnedRenderable(mesh, material)>>
                     \o StopAtMiss(Tail(msgs), meshReg, matReg)
            ELSE << >>

RECURSIVE SpawnGltfSystem(_, _, _)
\* spawn_gltf_system: the Renderables spawned for the messages read, in order
SpawnGltfSystem(msgs, meshReg, matReg) ==
    IF msgs = << >> THEN << >>
    ELSE LET mesh == MapGet(meshReg, Head(msgs).mesh_handle)
             material == MapGet(matReg, Head(msgs).material_handle)
             rest == SpawnGltfSystem(Tail(msgs), meshReg, matReg)
         IN IF mesh # None /\ material # None
            THEN <<SpawnedRenderable(mesh, material)>> \o rest
            ELSE rest

\* a State returned without running its StartupSchedule
SkipStartup(world) == world
\* ecs.run_schedule(StartupSchedule)
RunStartupSchedule(world) ==
    [world EXCEPT !.startups = @ + 1,
                  !.renderables = @ \o SpawnGltfSystem(world.batch,
                                                       MeshManager(world.meshes),
                                                       MaterialManager)]

\* State::new when load_gltf returns n meshes: one MainCamera, the messages,
\* the managers, then the startup run
StateNew(n, extra) ==
    RunStartupSchedule([cameras |-> <<CameraNew(1, TRUE)>>,
                        batch |-> extra \o <<ProgramIntent(n)>>,
                        meshes |-> n,
                        renderables |-> << >>,
                        startups |-> 0])

\* resumed -> set_window: a window and a State are built on every call;
\* self.state.get_or_insert(state) stores the State only while state is None
Resumed ==
    /\ pc \in {"no_state", "idle", "presented"}
    /\ built < MaxResumed
    /\ built' = built + 1
    /\ \E n \in 0..MaxMeshes, extra \in ExtraIntents :
        LET state == StateNew(n, extra) IN
        IF pc = "no_state"
        THEN /\ cameras' = state.cameras
             /\ gpu' = [c \in DOMAIN state.cameras |-> Identity]
             /\ frameEye' = [c \in DOMAIN state.cameras |-> state.cameras[c].eye]
             /\ renderables' = state.renderables
             /\ batch' = state.batch
             /\ meshes' = state.meshes
             /\ startups' = state.startups
             /\ spawned' = state.renderables
             /\ surface_config' = InitialSize
             /\ depth_texture' = InitialSize
             /\ screen_descriptor' = InitialSize
             /\ pc' = "idle"
        ELSE UNCHANGED <<cameras, gpu, frameEye, renderables, batch, meshes, startups,
                         spawned, surface_config, depth_texture, screen_descriptor, pc>>
    /\ UNCHANGED <<amVars, queueVars, overflow_checks, last_resize, threads, write_queue,
                   create_queue, render_queue, ran, acquire, drained, pass, staged, changedThis,
                   changedPrev, steps>>

\* App::new: state None, nothing drawn
InitApp ==
    /\ FreshManager
    /\ NoDrainLoop
    /\ AppNew
    /\ DevProfile
    /\ NoThreads
    /\ NoSurface
    /\ cameras = << >>
    /\ renderables = << >>
    /\ gpu = << >>
    /\ frameEye = << >>
    /\ write_queue = << >>
    /\ create_queue = << >>
    /\ render_queue = << >>
    /\ pc = "no_state"
    /\ ran = {}
    /\ acquire = "none"
    /\ drained = << >>
    /\ pass = << >>
    /\ staged = << >>
    /\ changedThis = FALSE
    /\ changedPrev = FALSE
    /\ steps = << >>

NextApp ==
    \/ Resumed
    \/ Next

SpecApp == InitApp /\ [][NextApp]_vars

\* C17: the State in use has run its StartupSchedule exactly once, before any
\* Render phase, however often resumed is delivered; the Renderables are the
\* ones that run spawned, at most one per spawn intent, in every later frame.
C17_StartupOnceBeforeRendering ==
    /\ pc # "no_state" => startups = 1
    /\ pc = "no_state" => (startups = 0 /\ ran = {} /\ acquire = "none")
    /\ renderables = spawned
    /\ Len(spawned) <= Len(batch)

\* frames rendered after a second resumed event, with a Renderable spawned
C17_Witness ==
    /\ built = MaxResumed
    /\ pc = "presented"
    /\ changedPrev
    /\ Len(renderables) >= 1

\* both handles of a spawn intent resolve in the managers of the State in use
Resolves(e) ==
    /\ MapGet(MeshManager(meshes), e.mesh_handle) # None
    /\ MapGet(MaterialManager, e.material_handle) # None

\* the spawn intents of the batch that resolve
Resolving == {i \in 1..Len(batch) : Resolves(batch[i])}

\* C18: a spawn intent whose mesh or material handle is absent yields no
\* Renderable and no failure, and every other intent of the batch yields its
\* Renderable: the world holds one Renderable per resolving intent, each with
\* the mesh of such an intent, frames draw exactly those, and nothing panics
\* but a failed surface acquisition.
C18_MissIsSkipped ==
    /\ pc # "no_state" =>
          /\ Len(renderables) = Cardinality(Resolving)
          /\ \A k \in 1..Len(renderables) :
                \E i \in Resolving :
                    renderables[k].mesh.vertex_buffer = <<"vb", batch[i].mesh_handle + 1>>
    /\ pc = "replayed" => Len(drained) = Cardinality(Resolving)
    /\ pc = "panicked" => acquire # "Ok"

\* a frame drawn from a batch whose first intent misses and whose second
\* resolves
C18_Witness ==
    /\ pc = "replayed"
    /\ Len(batch) = 2
    /\ ~Resolves(batch[1])
    /\ Resolves(batch[2])
    /\ Len(drained) = 1

(***************************************************************************)
(* The handle counter at the end of its range                              *)
(***************************************************************************)
\* width in bits given to the usize counter
CounterBits == 2
\* usize::MAX at that width
CounterMax == 2 ^ CounterBits - 1

\* the process runs until an insert panics
Running == last.op # "insert_panicked"

\* AssetManager::insert at the full range of the counter: `*next_handle += 1`
\* on the maximum panics under overflow checks, with the write lock held and
\* nothing stored or returned, and wraps to 0 without them
InsertAtWidth(a) ==
    /\ Running
    /\ Len(returned) <= CounterMax + 1
    /\ IF next_handle = CounterMax /\ overflow_checks
       THEN /\ last' = Call("insert_panicked", next_handle, None)
            /\ UNCHANGED <<assets, next_handle, returned>>
       ELSE LET handle == next_handle IN
            /\ next_handle' = BumpCounter(next_handle) % (CounterMax + 1)
            /\ assets' = StoreAsset(assets, handle, a)
            /\ returned' = Append(returned, [h |-> handle, a |-> a])
            /\ last' = Call("insert", handle, a)
    /\ UNCHANGED <<removed, retired, frameVars, queueVars, appVars, overflow_checks, surfaceVars,
                   threads>>

\* a fresh manager in a build with or without overflow checks
InitWrap ==
    /\ FreshManager
    /\ NoFrame
    /\ NoDrainLoop
    /\ AppNew
    /\ overflow_checks \in BOOLEAN
    /\ NoThreads
    /\ NoSurface

\* AssetManager::get while the process runs
GetWhileRunning(h) == Running /\ Get(h)

NextWrap ==
    \/ \E a \in Assets : InsertAtWidth(a)
    \/ \E h \in 0..CounterMax : GetWhileRunning(h)

SpecWrap == InitWrap /\ [][NextWrap]_vars

\* C19: the counter never wraps: no insert returns a handle that an earlier
\* insert returned.
C19_NoHandleReturnedTwice ==
    \A i, j \in 1..Len(returned) : i < j => returned[i].h # returned[j].h

(***************************************************************************)
(* Claims on the order of a frame's steps                                  *)
(***************************************************************************)
\* the steps of a whole frame, with the two routines of the Render phase in
\* the order given
FrameSteps(first, second) ==
    <<first, second, "writes", "replay", "overlay", "submit_present">>

\* s is a prefix of t
IsPrefix(s, t) == Len(s) <= Len(t) /\ s = SubSeq(t, 1, Len(s))

\* C21: the steps of a frame happen in the order Render phase, write-buffer
\* drain, render drain and replay, debug overlay, submit and present, each
\* once: what a frame has done so far is a prefix of that sequence, and a
\* presented frame has done all of it.
C21_FrameStepsInOrder ==
    /\ \/ IsPrefix(steps, FrameSteps("camera_sync", "render_intent"))
       \/ IsPrefix(steps, FrameSteps("render_intent", "camera_sync"))
    /\ pc = "presented" => Len(steps) = 6
    /\ pc = "overlay_done" => Len(steps) = 5

\* a second or later frame has been presented with a write and a draw issued
C21_Witness ==
    /\ pc = "presented"
    /\ changedPrev
    /\ Len(steps) = 6
    /\ Len(drained) = 1
    /\ Len(pass) > 0

\* C22: a step in which a routine of the Render phase runs changes neither
\* the cameras, nor the Renderables, nor the asset registry, and issues no
\* buffer write and records no bind or draw: it only pushes commands.
C22_RenderPhaseOnlyEnqueues ==
    [][(ran' # ran /\ ran' # {}) =>
          UNCHANGED <<cameras, renderables, assets, next_handle, staged, gpu, pass>>]_vars

\* both routines have run and each has pushed a command
C22_Witness ==
    /\ pc = "schedule"
    /\ ran = {"camera", "render"}
    /\ write_queue # << >>
    /\ render_queue # << >>

(***************************************************************************)
(* One AssetManager called from several threads                            *)
(***************************************************************************)
\* calls one thread makes
MaxCalls == 2
\* handles passed to get and remove, returned by an insert or not
ProbeHandles == {0, 1}

\* a counter without a lock
NoCounterLock(ths) == TRUE
\* self.next_handle.write() can be granted: no thread holds the guard
CounterLockFree(ths) ==
    \A t \in Threads : ths[t].pc \notin {"counter_locked", "counter_read"}

\* some thread holds the write guard of `assets`
AssetsWriteHeld(ths) == \E t \in Threads : ths[t].pc \in {"assets_locked", "removing"}
\* some thread holds a read guard of `assets`
AssetsReadHeld(ths) == \E t \in Threads : ths[t].pc = "reading"

\* thread t enters a call
Enter(t, pc_, op, arg) ==
    [threads EXCEPT ![t] = [pc |-> pc_, op |-> op, arg |-> arg, handle |-> 0, res |-> 0,
                            calls |-> @.calls]]
\* thread t returns res from its call; the call's locals are gone
Return(t, res) ==
    [threads EXCEPT ![t] = [@ EXCEPT !.pc = "idle", !.arg = 0, !.handle = 0, !.res = res,
                                     !.calls = @ + 1]]

\* insert: let mut next_handle = self.next_handle.write().unwrap()
LockCounter(t, a) ==
    /\ threads[t].pc = "idle"
    /\ threads[t].calls < MaxCalls
    /\ CounterLockFree(threads)
    /\ threads' = Enter(t, "counter_locked", "insert", a)
    /\ UNCHANGED <<amVars, frameVars, queueVars, appVars, overflow_checks, surfaceVars>>

\* insert: let handle = Handle(*next_handle)
ReadCounter(t) ==
    /\ threads[t].pc = "counter_locked"
    /\ threads' = [threads EXCEPT ![t] = [@ EXCEPT !.pc = "counter_read",
                                                   !.handle = next_handle]]
    /\ UNCHANGED <<amVars, frameVars, queueVars, appVars, overflow_checks, surfaceVars>>

\* insert: *next_handle += 1, and the guard is dropped at the end of the block
BumpAndUnlock(t) ==
    /\ threads[t].pc = "counter_read"
    /\ next_handle' = BumpCounter(next_handle)
    /\ threads' = [threads EXCEPT ![t] = [@ EXCEPT !.pc = "has_handle"]]
    /\ UNCHANGED <<assets, returned, removed, retired, last, frameVars, queueVars, appVars,
                   overflow_checks, surfaceVars>>

\* insert: let mut assets = self.assets.write().unwrap()
LockAssetsForInsert(t) ==
    /\ threads[t].pc = "has_handle"
    /\ ~AssetsWriteHeld(threads)
    /\ ~AssetsReadHeld(threads)
    /\ threads' = [threads EXCEPT ![t] = [@ EXCEPT !.pc = "assets_locked"]]
    /\ UNCHANGED <<amVars, frameVars, queueVars, appVars, overflow_checks, surfaceVars>>

\* insert: assets.insert(handle, asset.clone()); handle
StoreAndReturn(t) ==
    /\ threads[t].pc = "assets_locked"
    /\ assets' = StoreAsset(assets, threads[t].handle, threads[t].arg)
    /\ returned' = Append(returned, [h |-> threads[t].handle, a |-> threads[t].arg])
    /\ threads' = Return(t, threads[t].handle)
    /\ UNCHANGED <<next_handle, removed, retired, last, frameVars, queueVars, appVars,
                   overflow_checks, surfaceVars>>

\* get: self.assets.read().unwrap()
LockAssetsRead(t, h) ==
    /\ threads[t].pc = "idle"
    /\ threads[t].calls < MaxCalls
    /\ ~AssetsWriteHeld(threads)
    /\ threads' = Enter(t, "reading", "get", h)
    /\ UNCHANGED <<amVars, frameVars, queueVars, appVars, overflow_checks, surfaceVars>>

\* get: .get(&handle).cloned()
ReadAndReturn(t) ==
    /\ threads[t].pc = "reading"
    /\ threads' = Return(t, MapGet(assets, threads[t].arg))
    /\ UNCHANGED <<amVars, frameVars, queueVars, appVars, overflow_checks, surfaceVars>>

\* remove: let mut assets = self.assets.write().unwrap()
LockAssetsForRemove(t, h) ==
    /\ threads[t].pc = "idle"
    /\ threads[t].calls < MaxCalls
    /\ ~AssetsWriteHeld(threads)
    /\ ~AssetsReadHeld(threads)
    /\ threads' = Enter(t, "removing", "remove", h)
    /\ UNCHANGED <<amVars, frameVars, queueVars, appVars, overflow_checks, surfaceVars>>

\* remove: assets.remove(&handle)
RemoveAndReturn(t) ==
    /\ threads[t].pc = "removing"
    /\ assets' = AfterRemove(assets, threads[t].arg)
    /\ removed' = removed \cup {threads[t].arg}
    /\ retired' = IF threads[t].arg \in ReturnedHandles
                  THEN retired \cup {threads[t].arg} ELSE retired
    /\ threads' = Return(t, MapGet(assets, threads[t].arg))
    /\ UNCHANGED <<next_handle, returned, last, frameVars, queueVars, appVars,
                   overflow_checks, surfaceVars>>

InitThreads ==
    FreshManager /\ NoFrame /\ NoDrainLoop /\ AppNew /\ DevProfile /\ NoThreads /\ NoSurface

NextThreads ==
    \/ \E t \in Threads, a \in Assets : LockCounter(t, a)
    \/ \E t \in Threads : ReadCounter(t)
    \/ \E t \in Threads : BumpAndUnlock(t)
    \/ \E t \in Threads : LockAssetsForInsert(t)
    \/ \E t \in Threads : StoreAndReturn(t)
    \/ \E t \in Threads, h \in ProbeHandles : LockAssetsRead(t, h)
    \/ \E t \in Threads : ReadAndReturn(t)
    \/ \E t \in Threads, h \in ProbeHandles : LockAssetsForRemove(t, h)
    \/ \E t \in Threads : RemoveAndReturn(t)

SpecThreads == InitThreads /\ [][NextThreads]_vars

\* thread t, inside a call, can take its next step
CanAdvance(t) ==
    ENABLED (\/ ReadCounter(t) \/ BumpAndUnlock(t) \/ LockAssetsForInsert(t)
             \/ StoreAndReturn(t) \/ ReadAndReturn(t) \/ RemoveAndReturn(t))

\* C23: under every interleaving of the threads' insert, get and remove calls
\* the handles the inserts returned are pairwise distinct; when no call is
\* running every returned handle on which remove was not called resolves to
\* the asset of its insert; and while calls are running one of them can step.
C23_ConcurrentCallsAreSafe ==
    /\ \A i, j \in 1..Len(returned) : i < j => returned[i].h # returned[j].h
    /\ (\A t \in Threads : threads[t].pc = "idle") =>
          \A i \in 1..Len(returned) :
              returned[i].h \notin removed => MapGet(assets, returned[i].h) = returned[i].a
    /\ (\E t \in Threads : threads[t].pc # "idle") =>
          \E t \in Threads : threads[t].pc # "idle" /\ CanAdvance(t)

\* both threads have returned from an insert after running them overlapped:
\* the second handle was read before the first insert stored its asset
C23_Witness ==
    /\ \A t \in Threads : threads[t].pc = "idle" /\ threads[t].op = "insert"
    /\ Len(returned) = 2
    /\ returned[1].h > returned[2].h

\* C24: every key of the asset map is smaller than next_handle in every
\* state, the states inside insert included, and no step decreases
\* next_handle.
C24_KeysBelowCounter ==
    /\ [](\A h \in DOMAIN assets : h < next_handle)
    /\ [][next_handle' >= next_handle]_vars

\* a thread is between the counter update and the map insertion of its insert
\* while the map holds an asset
C24_Witness ==
    /\ \E t \in Threads : threads[t].pc = "has_handle"
    /\ assets # << >>

(***************************************************************************)
(* Claims on the cached uniform, the write order and resizing              *)
(***************************************************************************)
\* C25: when a frame has been presented, and already when its overlay is
\* done, the cached uniform of every camera is the matrix of the camera's
\* present fields, whether or not the overlay changed the eye in that frame.
C25_CachedUniformCurrent ==
    pc \in {"overlay_done", "presented"} =>
        \A c \in DOMAIN cameras : cameras[c].uniform = ViewProj(cameras[c])

\* the end of a frame in which the overlay moved the eye of the main camera
\* away from where Camera::new put it
C25_Witness ==
    /\ pc = "presented"
    /\ changedThis
    /\ \E c \in DOMAIN cameras : cameras[c].main /\ cameras[c].eye # <<0, 0, 5>>

\* WriteBuffer commands in the queue when a frame begins
MaxWrites == 2

\* the payload of the k-th queued write, shaped like a uniform
Payload(k) == [projection |-> <<k>>, view |-> <<k>>]

\* the contents a producer of WriteBuffer commands can have pushed: up to
\* MaxWrites commands, each to the buffer of some camera, at offset 0
WriteBacklogs ==
    UNION {{[k \in 1..n |-> GpuWriteBufferCommandNew(bs[k], 0, Payload(k))] :
               bs \in [1..n -> CameraIds]} : n \in 0..MaxWrites}

\* the world of State::new with WriteBuffer commands pushed by one producer
InitWrites ==
    /\ FreshManager
    /\ NoDrainLoop
    /\ AppNew
    /\ DevProfile
    /\ NoThreads
    /\ SurfaceAsBuilt
    /\ NotRendering
    /\ write_queue \in WriteBacklogs
    /\ create_queue = << >>
    /\ render_queue = << >>
    /\ CamerasAsBuilt
    /\ RenderablesAsSpawned

SpecWrites == InitWrites /\ [][Next]_vars

\* the place of the last write to buffer b in a sequence of writes
LastWriteTo(writes, b) ==
    CHOOSE i \in 1..Len(writes) :
        /\ writes[i].buffer = b
        /\ \A j \in (i + 1)..Len(writes) : writes[j].buffer # b

\* C26: the write-buffer drain issues the queued writes in the order they
\* were pushed, and after the submit a buffer written in the frame holds the
\* data of the write to it that was pushed last.
C26_WritesIssuedInPushOrder ==
    [][/\ (pc = "schedule" /\ pc' = "writes_issued") => staged' = staged \o write_queue
       /\ (pc = "overlay_done" /\ pc' = "presented") =>
              \A b \in DOMAIN gpu :
                  IF \E i \in 1..Len(staged) : staged[i].buffer = b
                  THEN gpu'[b] = staged[LastWriteTo(staged, b)].data
                  ELSE gpu'[b] = gpu[b]]_vars

\* a presented frame in which both queued writes went to one buffer, which now
\* holds the payload of the second
C26_Witness ==
    /\ pc = "presented"
    /\ \E b \in DOMAIN gpu :
          /\ gpu[b] = Payload(2)
          /\ \A o \in DOMAIN gpu \ {b} : gpu[o] = Identity

(***************************************************************************)
(* Resized events                                                          *)
(***************************************************************************)
\* the widths and heights a Resized event carries
Widths == {0, 800, 1920}
Heights == {0, 600, 1080}

\* a handler that applies every size
AlwaysApplies(width, height) == TRUE
\* if width > 0 && height > 0
ResizeApplies(width, height) == width > 0 /\ height > 0

\* WindowEvent::Resized(new_size) -> handle_resized(width, height), between
\* two frames: resize_surface reconfigures the surface and rebuilds the depth
\* texture, then the screen descriptor is replaced
Resized(width, height) ==
    /\ pc \in {"idle", "presented"}
    /\ last_resize' = <<width, height>>
    /\ IF ResizeApplies(width, height)
       THEN /\ surface_config' = <<width, height>>
            /\ depth_texture' = surface_config'
            /\ screen_descriptor' = <<width, height>>
       ELSE UNCHANGED <<surface_config, depth_texture, screen_descriptor>>
    /\ UNCHANGED <<amVars, frameVars, queueVars, appVars, overflow_checks, threads>>

\* the world of State::new with its surface, before any window event
InitResize == Init

NextResize ==
    \/ \E width \in Widths, height \in Heights : Resized(width, height)
    \/ Next

SpecResize == InitResize /\ [][NextResize]_vars

\* C27: every camera keeps the aspect ratio Camera::new computed, and a step
\* that handles a Resized event changes no camera; with width > 0 and
\* height > 0 it sets surface configuration, depth texture and screen
\* descriptor to the new size, otherwise it leaves the three unchanged.
C27_ResizeLeavesCameras ==
    /\ [](\A c \in DOMAIN cameras : cameras[c].aspect_ratio = InitialSize)
    /\ [][last_resize' # last_resize =>
            /\ UNCHANGED cameras
            /\ IF last_resize'[1] > 0 /\ last_resize'[2] > 0
               THEN /\ surface_config' = last_resize'
                    /\ depth_texture' = last_resize'
                    /\ screen_descriptor' = last_resize'
               ELSE UNCHANGED <<surface_config, depth_texture, screen_descriptor>>]_vars

\* a frame presented after a resize to 800 x 600 followed by a resize of
\* width 0, with the eye dragged in that frame
C27_Witness ==
    /\ pc = "presented"
    /\ changedThis
    /\ last_resize = <<0, 600>>
    /\ surface_config = <<800, 600>>
    /\ depth_texture = <<800, 600>>
    /\ screen_descriptor = <<800, 600>>

====
